---- MODULE Spec2Model ----
(***************************************************************************)
(* Model of parameters/examples/setup.rs: the parameter-generation         *)
(* pipeline (checksum, versioned file names, the three writers, the six    *)
(* setup routines and main's dispatch).                                    *)
(*                                                                         *)
(* Byte buffers are sequences of units.  A unit of a key artifact is a     *)
(* block of BlockSize bytes; a unit of a JSON document is one token.  A    *)
(* write(2) on a file transfers whole units and may be short.              *)
(***************************************************************************)
EXTENDS Integers, Sequences, FiniteSets, TLC

VARIABLES procs, pool, args, pc, routine, loc, io, fs, fs0, stdout, stderr, hist

vars == <<procs, pool, args, pc, routine, loc, io, fs, fs0, stdout, stderr, hist>>

(* ------------------------------ bounds -------------------------------- *)

\* A key artifact holds 1..MaxBlocks blocks.
MaxBlocks == 2
\* Bytes one block of a key artifact stands for.
BlockSize == 4096
\* Longest checksum string handed to versioned_filename when write_remote is exercised on its own
\* besides the full-length checksums.
MaxSumLen == 8
\* std::io::BufWriter::new's default capacity (DEFAULT_BUF_SIZE).
BufCapacity == 8192
\* Bytes of a SHA-256 digest.
DigestLen == 32

(* ------------------------------ strings ------------------------------- *)

\* A string is a sequence of characters; a literal of the source is kept as
\* one element.
Lit(s) == <<s>>

HexDigits == <<"0", "1", "2", "3", "4", "5", "6", "7",
               "8", "9", "a", "b", "c", "d", "e", "f">>

\* hex::encode of one byte: two lowercase hex digits, high nibble first.
HexByte(b) == <<HexDigits[(b \div 16) + 1], HexDigits[(b % 16) + 1]>>

RECURSIVE hex_encode(_)
hex_encode(bytes) ==
  IF bytes = <<>> THEN <<>> ELSE HexByte(Head(bytes)) \o hex_encode(Tail(bytes))

(* ------------------------------- units -------------------------------- *)

Unit(t, k, s, n) == [t |-> t, k |-> k, s |-> s, n |-> n]
Block(v)   == Unit("blk", "", <<>>, v)
\* A block of zero bytes: what a write past the end of a file leaves behind.
ZeroUnit   == Unit("zero", "", <<>>, 0)
StaleUnit  == Unit("stale", "", <<>>, 0)

BlockVals == {1, 2}

\* The byte buffers a key (or an SRS) can serialize to: for every length of
\* 1..MaxBlocks blocks, one content per block value it can start with, the
\* values alternating from block to block.
Artifact(n, v) == [i \in 1..n |-> Block(IF i % 2 = 1 THEN v ELSE 3 - v)]
Artifacts == {Artifact(n, v) : n \in 1..MaxBlocks, v \in BlockVals}

(* ------------------------------ checksum ------------------------------ *)

RECURSIVE Weigh(_, _, _)
Weigh(bytes, j, i) ==
  IF j > Len(bytes) THEN 0
  ELSE (bytes[j].n + 1) * (31 * j + 7 * i) + Weigh(bytes, j + 1, i)

\* Stand-in for SHA-256: a deterministic digest of DigestLen bytes.
sha256(bytes) ==
  [i \in 1..DigestLen |-> (131 * Len(bytes) + 17 * i + Weigh(bytes, 1, i)) % 256]

checksum(bytes) == hex_encode(sha256(bytes))

(* ------------------------ versioned file names ------------------------ *)

None == [some |-> FALSE, val |-> <<>>]
Some(v) == [some |-> TRUE, val |-> v]

\* str::get(lo..hi): the characters lo..hi-1 (0-based) when the range lies
\* within the string, None otherwise.
StrGet(s, lo, hi) ==
  IF lo <= hi /\ hi <= Len(s) THEN Some(SubSeq(s, lo + 1, hi)) ELSE None

\* Faulty variant of versioned_filename: a checksum of exactly 7 characters falls
\* back to the plain name.
versioned_filename_Longer(filename, sum) ==
  IF Len(sum) > 7 THEN filename \o Lit(".") \o StrGet(sum, 0, 7).val ELSE filename

versioned_filename(filename, sum) ==
  LET got == StrGet(sum, 0, 7)
  IN  IF got.some THEN filename \o Lit(".") \o got.val ELSE filename

(* -------------------------------- JSON -------------------------------- *)

JsonString(s) == [isnum |-> FALSE, s |-> s, n |-> 0]
JsonNumber(n) == [isnum |-> TRUE, s |-> <<>>, n |-> n]

\* A serde_json object is a map from keys to values; its keys are kept in
\* sorted order (serde_json's default map).
KeyOrder == <<"circuit_id", "proving_checksum", "proving_size", "srs_checksum",
              "srs_size", "verifying_checksum", "verifying_size">>

EmptyJson == [k \in {} |-> JsonNumber(0)]

\* json!({ "proving_checksum": .., "proving_size": .., "verifying_checksum": ..,
\*         "verifying_size": .., "circuit_id": .. })
CircuitMetadata(proving_checksum, proving_size, verifying_checksum, verifying_size, circuit_id) ==
  [k \in {"proving_checksum", "proving_size", "verifying_checksum", "verifying_size", "circuit_id"} |->
     CASE k = "proving_checksum"   -> JsonString(proving_checksum)
       [] k = "proving_size"       -> JsonNumber(proving_size)
       [] k = "verifying_checksum" -> JsonString(verifying_checksum)
       [] k = "verifying_size"     -> JsonNumber(verifying_size)
       [] OTHER                    -> JsonString(circuit_id)]

\* Faulty variant of PoswMetadata: the json! of the circuit routines, circuit_id included.
PoswMetadata_WithCircuitId(proving_checksum, proving_size, verifying_checksum, verifying_size) ==
  CircuitMetadata(proving_checksum, proving_size, verifying_checksum, verifying_size, <<>>)

\* posw's json! has no "circuit_id".
PoswMetadata(proving_checksum, proving_size, verifying_checksum, verifying_size) ==
  [k \in {"proving_checksum", "proving_size", "verifying_checksum", "verifying_size"} |->
     CASE k = "proving_checksum"   -> JsonString(proving_checksum)
       [] k = "proving_size"       -> JsonNumber(proving_size)
       [] k = "verifying_checksum" -> JsonString(verifying_checksum)
       [] OTHER                    -> JsonNumber(verifying_size)]

UniversalMetadata(srs_checksum, srs_size) ==
  [k \in {"srs_checksum", "srs_size"} |->
     IF k = "srs_checksum" THEN JsonString(srs_checksum) ELSE JsonNumber(srs_size)]

RECURSIVE PrettyFields(_, _)
PrettyFields(value, i) ==
  IF i > Len(KeyOrder) THEN <<>>
  ELSE (IF KeyOrder[i] \in DOMAIN value
        THEN <<Unit("field", KeyOrder[i], value[KeyOrder[i]].s, value[KeyOrder[i]].n)>>
        ELSE <<>>) \o PrettyFields(value, i + 1)

\* serde_json::to_vec_pretty / to_string_pretty: "{", one line per field, "}".
to_vec_pretty(value) ==
  <<Unit("{", "", <<>>, 0)>> \o PrettyFields(value, 1) \o <<Unit("}", "", <<>>, 0)>>

IsNumberKey(k) == k \in {"proving_size", "verifying_size", "srs_size"}

\* What a JSON reader gets from a file: the object, when the bytes are one
\* complete document.
IsDocument(bytes) ==
  /\ Len(bytes) >= 2
  /\ bytes[1].t = "{"
  /\ bytes[Len(bytes)].t = "}"
  /\ \A i \in 2..(Len(bytes) - 1) : bytes[i].t = "field"
  /\ \A i, j \in 2..(Len(bytes) - 1) : bytes[i].k = bytes[j].k => i = j

ParseJson(bytes) ==
  [k \in {bytes[i].k : i \in 2..(Len(bytes) - 1)} |->
     LET i == CHOOSE j \in 2..(Len(bytes) - 1) : bytes[j].k = k
     IN  IF IsNumberKey(k) THEN JsonNumber(bytes[i].n) ELSE JsonString(bytes[i].s)]

RECURSIVE Digits(_)
Digits(n) == IF n < 10 THEN 1 ELSE 1 + Digits(n \div 10)

KeyLen(k) ==
  CASE k = "circuit_id" -> 10 [] k = "proving_checksum" -> 16 [] k = "proving_size" -> 12
    [] k = "srs_checksum" -> 12 [] k = "srs_size" -> 8 [] k = "verifying_checksum" -> 18
    [] OTHER -> 14

\* Bytes a unit stands for.
UnitBytes(u) ==
  CASE u.t = "field" ->
         \* two spaces, the quoted key, ": ", the value, ",\n"
         2 + (KeyLen(u.k) + 2) + 2 + (IF IsNumberKey(u.k) THEN Digits(u.n) ELSE Len(u.s) + 2) + 2
    [] u.t \in {"{", "}"} -> 2
    [] OTHER -> BlockSize

RECURSIVE ByteLen(_)
ByteLen(bytes) == IF bytes = <<>> THEN 0 ELSE UnitBytes(Head(bytes)) + ByteLen(Tail(bytes))

(* ----------------------------- file system ---------------------------- *)

Exists(f, path) == path \in DOMAIN f

Put(f, path, content) ==
  [q \in DOMAIN f \cup {path} |-> IF q = path THEN content ELSE f[q]]

\* Faulty variant of FileCreate: an existing file is opened without being truncated.
FileCreate_NoTruncate(f, path) == IF Exists(f, path) THEN f ELSE Put(f, path, <<>>)

\* File::create: the file exists afterwards and is empty (created or truncated).
FileCreate(f, path) == Put(f, path, <<>>)

\* write(2) of `units` at offset `off` (0-based) of a file holding `content`;
\* a gap between the end of the file and `off` reads as zeros.
WriteAt(content, off, units) ==
  LET padded == IF Len(content) < off
                THEN content \o [i \in 1..(off - Len(content)) |-> ZeroUnit]
                ELSE content
  IN  SubSeq(padded, 1, off) \o units \o SubSeq(padded, off + Len(units) + 1, Len(padded))

\* The unit counts one write(2) of `rem` may transfer: all of it, or, of the
\* blocks of a key, a short write of one block.  (A JSON document is a few
\* hundred bytes: it is transferred whole or not at all.)
WriteSizes(rem) == {Len(rem)} \cup (IF rem[1].t = "blk" THEN {1} ELSE {})

(* ------------------------- kinds and their names ---------------------- *)

CircuitKinds == {"inner", "input", "output", "value_check"}
Kinds == CircuitKinds \cup {"posw", "universal"}
Networks == {"testnet1", "testnet2"}

MetadataName(kind) ==
  CASE kind = "inner" -> Lit("inner.metadata") [] kind = "input" -> Lit("input.metadata")
    [] kind = "output" -> Lit("output.metadata") [] kind = "value_check" -> Lit("value_check.metadata")
    [] kind = "posw" -> Lit("posw.metadata") [] OTHER -> Lit("universal.metadata")

\* The name handed to write_remote: <kind>.proving, or universal.srs.
RemoteName(kind) ==
  CASE kind = "inner" -> Lit("inner.proving") [] kind = "input" -> Lit("input.proving")
    [] kind = "output" -> Lit("output.proving") [] kind = "value_check" -> Lit("value_check.proving")
    [] kind = "posw" -> Lit("posw.proving") [] OTHER -> Lit("universal.srs")

VerifyingName(kind) ==
  CASE kind = "inner" -> Lit("inner.verifying") [] kind = "input" -> Lit("input.verifying")
    [] kind = "output" -> Lit("output.verifying") [] kind = "value_check" -> Lit("value_check.verifying")
    [] OTHER -> Lit("posw.verifying")

(* -------------------------------- state ------------------------------- *)

\* The locals of a setup routine.  proving_bytes and proving_checksum hold
\* universal_srs and universal_checksum in universal_setup.
Loc0 ==
  [network |-> "", srs |-> <<>>, proving_key |-> <<>>, verifying_key |-> <<>>,
   has_proving_key |-> TRUE, proving_bytes |-> <<>>, verifying_bytes |-> <<>>,
   proving_checksum |-> <<>>, circuit_id |-> <<>>, metadata |-> EmptyJson]

\* The frame of the writer being executed: its BufWriter (buf), the file's
\* offset (off) and where the caller continues on Ok (next).
Io0 ==
  [fn |-> "", path |-> <<>>, value |-> EmptyJson, bytes |-> <<>>, buf |-> <<>>,
   off |-> 0, next |-> ""]

\* History: the first step that failed, the files created (in order) and the
\* writer calls that returned.
Hist0 == [failed |-> "none", created |-> <<>>, calls |-> <<>>]

EmptyFs == [q \in {} |-> <<>>]

\* A working directory left by an earlier run of every kind.
StaleContent == <<StaleUnit, StaleUnit, StaleUnit>>
StaleFs ==
  [q \in {MetadataName(k) : k \in Kinds} \cup {VerifyingName(k) : k \in Kinds \ {"universal"}}
     |-> StaleContent]

Program == "setup"

\* std::env::args(): the program name and up to three further tokens.
ArgVectors ==
  LET K == Kinds \cup {"bogus"}
      W == Networks \cup {"testnet3"}
  IN  {<<>>, <<Program>>}
        \cup {<<Program, k>> : k \in K}
        \cup {<<Program, k, w>> : k \in K, w \in W}
        \cup {<<Program, k, w, "extra">> : k \in K, w \in W}

Out(what, text, n) == [what |-> what, text |-> text, n |-> n]
Msg(msg, n) == [msg |-> msg, n |-> n]

\* One invocation, with any arguments; `pool` is what the external setup can
\* return to each process, serialized: its proving keys (or SRS) and its
\* verifying keys.
Init ==
  /\ procs = {"A"}
  /\ pool = [p \in procs |-> [proving |-> Artifacts, verifying |-> Artifacts]]
  /\ args \in [procs -> ArgVectors]
  /\ pc = [p \in procs |-> "main"]
  /\ routine = [p \in procs |-> "none"]
  /\ loc = [p \in procs |-> Loc0]
  /\ io = [p \in procs |-> Io0]
  /\ fs \in {EmptyFs, StaleFs}
  /\ fs0 = fs
  /\ stdout = [p \in procs |-> <<>>]
  /\ stderr = [p \in procs |-> <<>>]
  /\ hist = [p \in procs |-> Hist0]

(* ------------------------------- helpers ------------------------------ *)

Goto(p, label) == pc' = [pc EXCEPT ![p] = label]

\* A `?` that sees Err: the error is returned through the setup routine and
\* through main's own `?`, and main returns Err.
Propagate(p, step) ==
  /\ pc' = [pc EXCEPT ![p] = "exit_err"]
  /\ hist' = [hist EXCEPT ![p].failed = step]

\* panic!, unwrap, expect: the process aborts with a message.
Abort(p, msg) ==
  /\ pc' = [pc EXCEPT ![p] = "panic"]
  /\ stderr' = [stderr EXCEPT ![p] = Append(@, Msg(msg, 0))]

(* --------------------------------- main ------------------------------- *)

Run(kind, network) == [panic |-> FALSE, msg |-> "", routine |-> kind, network |-> network]
Panic(msg) == [panic |-> TRUE, msg |-> msg, routine |-> "none", network |-> ""]

\* Faulty variant of UniversalTestnet1: the combination is dispatched like any other.
UniversalTestnet1_Dispatched == Run("universal", "testnet1")

\* main's arm for universal on testnet1.
UniversalTestnet1 == Panic("Testnet1 does not support a universal SRS")

\* The inner match on args[2] of every kind but universal.
MatchNetwork(kind, network) ==
  CASE network = "testnet1" -> Run(kind, "testnet1")
    [] network = "testnet2" -> Run(kind, "testnet2")
    [] OTHER -> Panic("Invalid network")

\* The match on args[1].
Dispatch(kind, network) ==
  CASE kind = "inner" -> MatchNetwork("inner", network)
    [] kind = "posw" -> MatchNetwork("posw", network)
    [] kind = "universal" ->
         (CASE network = "testnet1" -> UniversalTestnet1
            [] network = "testnet2" -> Run("universal", "testnet2")
            [] OTHER -> Panic("Invalid network"))
    [] kind = "input" -> MatchNetwork("input", network)
    [] kind = "output" -> MatchNetwork("output", network)
    [] kind = "value_check" -> MatchNetwork("value_check", network)
    [] OTHER -> Panic("Invalid parameter")

\* The first step of a kind's setup routine.
Entry(kind) == IF kind \in CircuitKinds THEN "circuit_setup" ELSE "sizing"

\* Faulty variant of UsageExit: too few arguments are reported as an error.
UsageExit_Err == "exit_err"

\* `return Ok(())` after the usage message.
UsageExit == "exit_ok"

Main(p) ==
  /\ pc[p] = "main"
  /\ IF Len(args[p]) < 3
     THEN \* `args.len() - 1` overflows when even the program name is missing:
          \* a panic with overflow checks, a wrapped value (usize::MAX, written
          \* -1 here) without.
          /\ \E overflow \in (IF Len(args[p]) = 0 THEN {"panic", "wrap"} ELSE {"none"}) :
               IF overflow = "panic"
               THEN Abort(p, "attempt to subtract with overflow")
               ELSE /\ stderr' = [stderr EXCEPT ![p] = Append(@,
                         Msg("Invalid number of arguments",
                             IF overflow = "wrap" THEN -1 ELSE Len(args[p]) - 1))]
                    /\ Goto(p, UsageExit)
          /\ UNCHANGED <<routine, loc>>
     ELSE LET d == Dispatch(args[p][2], args[p][3])
          IN  IF d.panic
              THEN Abort(p, d.msg) /\ UNCHANGED <<routine, loc>>
              ELSE /\ routine' = [routine EXCEPT ![p] = d.routine]
                   /\ loc' = [loc EXCEPT ![p].network = d.network]
                   /\ Goto(p, Entry(d.routine))
                   /\ UNCHANGED stderr
  /\ UNCHANGED <<procs, pool, args, io, fs, fs0, stdout, hist>>

(* --------------------------- setup routines --------------------------- *)

\* Stand-in for N::<kind>_circuit_id_crh().hash(verifying_key.to_minimal_bits()),
\* to_bytes_le: a deterministic digest of the verifying key, per network.
circuit_id_crh(network, verifying_key) ==
  [i \in 1..DigestLen |->
     (29 * i + (IF network = "testnet1" THEN 3 ELSE 5) * Weigh(verifying_key, 1, i + 1)) % 256]

\* AHPForR1CS::max_degree(..).unwrap(): universal_setup and posw_setup.
Sizing(p) ==
  /\ pc[p] = "sizing"
  /\ \E r \in {"ok", "err"} :
       IF r = "ok"
       THEN Goto(p, "universal_setup") /\ UNCHANGED <<stderr, hist>>
       ELSE /\ Abort(p, "called Result::unwrap() on an Err value")
            /\ hist' = [hist EXCEPT ![p].failed = "sizing"]
  /\ UNCHANGED <<procs, pool, args, routine, loc, io, fs, fs0, stdout>>

\* SNARK::universal_setup(&max_degree, &mut thread_rng())?
UniversalSetup(p) ==
  /\ pc[p] = "universal_setup"
  /\ \E r \in {"ok", "err"} :
       IF r = "ok"
       THEN /\ \E srs \in pool[p].proving : loc' = [loc EXCEPT ![p].srs = srs]
            /\ Goto(p, IF routine[p] = "posw" THEN "srs_bytes" ELSE "serialize")
            /\ UNCHANGED hist
       ELSE Propagate(p, "setup") /\ UNCHANGED loc
  /\ UNCHANGED <<procs, pool, args, routine, io, fs, fs0, stdout, stderr>>

\* posw_setup: universal_srs.to_bytes_le()? and the println! of its size.
SrsBytes(p) ==
  /\ pc[p] = "srs_bytes"
  /\ \E r \in {"ok", "err", "closed"} :
       CASE r = "ok" ->
              /\ stdout' = [stdout EXCEPT ![p] = Append(@, Out("srs", <<>>, ByteLen(loc[p].srs)))]
              /\ Goto(p, "posw_setup")
              /\ UNCHANGED <<stderr, hist>>
         [] r = "err" -> Propagate(p, "serialization") /\ UNCHANGED <<stdout, stderr>>
         [] OTHER -> Abort(p, "failed printing to stdout") /\ UNCHANGED <<stdout, hist>>
  /\ UNCHANGED <<procs, pool, args, routine, loc, io, fs, fs0>>

\* posw_setup: PoSWScheme::setup(&mut SRS::Universal(&FromBytes::read_le(..)?))?
PoswSetup(p) ==
  /\ pc[p] = "posw_setup"
  /\ \E r \in {"ok", "err"} :
       IF r = "ok"
       THEN /\ \E pk \in pool[p].proving, vk \in pool[p].verifying, has \in BOOLEAN :
                 loc' = [loc EXCEPT ![p].proving_key = pk, ![p].verifying_key = vk,
                                    ![p].has_proving_key = has]
            /\ Goto(p, "serialize")
            /\ UNCHANGED hist
       ELSE Propagate(p, "setup") /\ UNCHANGED loc
  /\ UNCHANGED <<procs, pool, args, routine, io, fs, fs0, stdout, stderr>>

\* inner/input/output/value_check: N::<Kind>SNARK::setup(&blank, &mut rng)?
CircuitSetup(p) ==
  /\ pc[p] = "circuit_setup"
  /\ \E r \in {"ok", "err"} :
       IF r = "ok"
       THEN /\ \E pk \in pool[p].proving, vk \in pool[p].verifying :
                 loc' = [loc EXCEPT ![p].proving_key = pk, ![p].verifying_key = vk]
            /\ Goto(p, "circuit_id")
            /\ UNCHANGED hist
       ELSE Propagate(p, "setup") /\ UNCHANGED loc
  /\ UNCHANGED <<procs, pool, args, routine, io, fs, fs0, stdout, stderr>>

\* hex::encode(crh.hash(&verifying_key.to_minimal_bits())?.to_bytes_le()?)
CircuitId(p) ==
  /\ pc[p] = "circuit_id"
  /\ \E r \in {"ok", "err"} :
       IF r = "ok"
       THEN /\ loc' = [loc EXCEPT ![p].circuit_id =
                         hex_encode(circuit_id_crh(loc[p].network, loc[p].verifying_key))]
            /\ Goto(p, "serialize")
            /\ UNCHANGED hist
       ELSE Propagate(p, "identity") /\ UNCHANGED loc
  /\ UNCHANGED <<procs, pool, args, routine, io, fs, fs0, stdout, stderr>>

\* The metadata a routine assembles with json!.
Assemble(kind, l) ==
  CASE kind \in CircuitKinds ->
         CircuitMetadata(checksum(l.proving_key), ByteLen(l.proving_key),
                         checksum(l.verifying_key), ByteLen(l.verifying_key), l.circuit_id)
    [] kind = "posw" ->
         PoswMetadata(checksum(l.proving_key), ByteLen(l.proving_key),
                      checksum(l.verifying_key), ByteLen(l.verifying_key))
    [] OTHER -> UniversalMetadata(checksum(l.srs), ByteLen(l.srs))

\* Faulty variant of AfterSerialize: the println! of the metadata is missing.
AfterSerialize_NoPrint == "write_metadata"

\* The statement after json!: the println! of the metadata.
AfterSerialize == "print"

\* Faulty variant of AfterPrint: the keys are written first and the metadata never.
AfterPrint_KeysFirst == "write_remote"

\* The statement after the println!: write_metadata.
AfterPrint == "write_metadata"

\* to_bytes_le()? of the keys (of the SRS), the checksums and json!; in
\* posw_setup, first the expect on posw.proving_key().
Serialize(p) ==
  /\ pc[p] = "serialize"
  /\ IF routine[p] = "posw" /\ ~loc[p].has_proving_key
     THEN /\ Abort(p, "posw_proving_key is missing")
          /\ hist' = [hist EXCEPT ![p].failed = "missing_proving_key"]
          /\ UNCHANGED loc
     ELSE \E r \in {"ok", "err"} :
            IF r = "ok"
            THEN /\ LET bytes == IF routine[p] = "universal" THEN loc[p].srs
                                 ELSE loc[p].proving_key
                    IN  loc' = [loc EXCEPT ![p].proving_bytes = bytes,
                                           ![p].proving_checksum = checksum(bytes),
                                           ![p].verifying_bytes =
                                              IF routine[p] = "universal" THEN <<>>
                                              ELSE loc[p].verifying_key,
                                           ![p].metadata = Assemble(routine[p], loc[p])]
                 /\ Goto(p, AfterSerialize)
                 /\ UNCHANGED <<stderr, hist>>
            ELSE Propagate(p, "serialization") /\ UNCHANGED <<loc, stderr>>
  /\ UNCHANGED <<procs, pool, args, routine, io, fs, fs0, stdout>>

\* println!("{}", serde_json::to_string_pretty(&metadata)?)
PrintMetadata(p) ==
  /\ pc[p] = "print"
  /\ \E r \in {"ok", "err", "closed"} :
       CASE r = "ok" ->
              /\ stdout' = [stdout EXCEPT ![p] =
                              Append(@, Out("json", to_vec_pretty(loc[p].metadata), 0))]
              /\ Goto(p, AfterPrint)
              /\ UNCHANGED <<stderr, hist>>
         [] r = "err" -> Propagate(p, "serialization") /\ UNCHANGED <<stdout, stderr>>
         [] OTHER -> Abort(p, "failed printing to stdout") /\ UNCHANGED <<stdout, hist>>
  /\ UNCHANGED <<procs, pool, args, routine, loc, io, fs, fs0>>

(* ------------------------------- writers ------------------------------ *)

\* Where a routine continues after a writer returned Ok: write_metadata, then
\* write_remote, then (but in universal_setup) write_local, then Ok(()), which
\* main returns too.
After(fn, kind) ==
  CASE fn = "write_metadata" -> "write_remote"
    [] fn = "write_remote" -> IF kind = "universal" THEN "exit_ok" ELSE "write_local"
    [] OTHER -> "exit_ok"

\* The writer returns: Ok(()) to its caller, or Err, which the caller's and
\* main's `?` return.  `failure` names the writer when a write failed.
Return(p, ok, failure) ==
  /\ pc' = [pc EXCEPT ![p] = IF ok THEN io[p].next ELSE "exit_err"]
  /\ hist' = [hist EXCEPT
       ![p].calls = Append(@, [fn |-> io[p].fn, path |-> io[p].path,
                               bytes |-> io[p].bytes, ok |-> ok]),
       ![p].failed = IF failure /\ @ = "none" THEN io[p].fn ELSE @]

\* BufWriter::new(File::create(PathBuf::from(path))?): the first statement of
\* the three writers.
Create(p, fn, path, value, bytes) ==
  \E r \in {"ok", "err"} :
    IF r = "ok"
    THEN /\ fs' = FileCreate(fs, path)
         /\ io' = [io EXCEPT ![p] = [fn |-> fn, path |-> path, value |-> value, bytes |-> bytes,
                                     buf |-> <<>>, off |-> 0, next |-> After(fn, routine[p])]]
         /\ hist' = [hist EXCEPT ![p].created = Append(@, path)]
         /\ Goto(p, "write_all")
    ELSE /\ pc' = [pc EXCEPT ![p] = "exit_err"]
         /\ hist' = [hist EXCEPT
              ![p].calls = Append(@, [fn |-> fn, path |-> path, bytes |-> bytes, ok |-> FALSE]),
              ![p].failed = fn]
         /\ UNCHANGED <<fs, io>>

write_metadata(p) ==
  /\ pc[p] = "write_metadata"
  /\ Create(p, "write_metadata", MetadataName(routine[p]), loc[p].metadata,
            to_vec_pretty(loc[p].metadata))
  /\ UNCHANGED <<procs, pool, args, routine, loc, fs0, stdout, stderr>>

write_remote(p) ==
  /\ pc[p] = "write_remote"
  /\ Create(p, "write_remote",
            versioned_filename(RemoteName(routine[p]), loc[p].proving_checksum),
            EmptyJson, loc[p].proving_bytes)
  /\ UNCHANGED <<procs, pool, args, routine, loc, fs0, stdout, stderr>>

write_local(p) ==
  /\ pc[p] = "write_local"
  /\ Create(p, "write_local", VerifyingName(routine[p]), EmptyJson, loc[p].verifying_bytes)
  /\ UNCHANGED <<procs, pool, args, routine, loc, fs0, stdout, stderr>>

\* file.write_all(bytes)? on the BufWriter (in write_metadata, after
\* serde_json::to_vec_pretty(metadata)?): bytes shorter than the buffer's
\* capacity are only copied into the buffer; longer ones go straight to the
\* file with File's write_all.
WriteAll(p) ==
  /\ pc[p] = "write_all"
  /\ \E r \in (IF io[p].fn = "write_metadata" THEN {"ok", "err"} ELSE {"ok"}) :
       IF r = "err"
       THEN Return(p, FALSE, TRUE) /\ UNCHANGED io
       ELSE IF ByteLen(io[p].bytes) < BufCapacity
            THEN IF io[p].bytes = <<>>
                 THEN Return(p, TRUE, FALSE) /\ UNCHANGED io
                 ELSE /\ io' = [io EXCEPT ![p].buf = io[p].bytes]
                      /\ Goto(p, "drop")
                      /\ UNCHANGED hist
            ELSE Goto(p, "file_write") /\ UNCHANGED <<io, hist>>
  /\ UNCHANGED <<procs, pool, args, routine, loc, fs, fs0, stdout, stderr>>

\* One write(2) of File's write_all loop: some of the remaining bytes go to
\* the file at the handle's offset, or the write fails and the error is
\* returned.  k = 0 is the failure.
FileWrite(p) ==
  /\ pc[p] = "file_write"
  /\ LET rem == SubSeq(io[p].bytes, io[p].off + 1, Len(io[p].bytes))
     IN  \E k \in {0} \cup WriteSizes(rem) :
           IF k = 0
           THEN Return(p, FALSE, TRUE) /\ UNCHANGED <<io, fs>>
           ELSE /\ fs' = Put(fs, io[p].path, WriteAt(fs[io[p].path], io[p].off, SubSeq(rem, 1, k)))
                /\ io' = [io EXCEPT ![p].off = @ + k]
                /\ IF k = Len(rem)
                   THEN Return(p, TRUE, FALSE)
                   ELSE UNCHANGED <<pc, hist>>
  /\ UNCHANGED <<procs, pool, args, routine, loc, fs0, stdout, stderr>>

\* The BufWriter is dropped after `Ok(())` was chosen as the result: drop
\* flushes the buffer with write(2)s and ignores an error.  k = 0 is the
\* failure: the rest of the buffer is discarded and the writer returns Ok.
Drop(p) ==
  /\ pc[p] = "drop"
  /\ \E k \in {0} \cup WriteSizes(io[p].buf) :
       IF k = 0
       THEN /\ io' = [io EXCEPT ![p].buf = <<>>]
            /\ Return(p, TRUE, TRUE)
            /\ UNCHANGED fs
       ELSE /\ fs' = Put(fs, io[p].path,
                         WriteAt(fs[io[p].path], io[p].off, SubSeq(io[p].buf, 1, k)))
            /\ io' = [io EXCEPT ![p].off = @ + k,
                                ![p].buf = SubSeq(@, k + 1, Len(@))]
            /\ IF k = Len(io[p].buf)
               THEN Return(p, TRUE, FALSE)
               ELSE UNCHANGED <<pc, hist>>
  /\ UNCHANGED <<procs, pool, args, routine, loc, fs0, stdout, stderr>>

(* ---------------------------- specification --------------------------- *)

Next ==
  \/ \E p \in procs : Main(p)
  \/ \E p \in procs : Sizing(p)
  \/ \E p \in procs : UniversalSetup(p)
  \/ \E p \in procs : SrsBytes(p)
  \/ \E p \in procs : PoswSetup(p)
  \/ \E p \in procs : CircuitSetup(p)
  \/ \E p \in procs : CircuitId(p)
  \/ \E p \in procs : Serialize(p)
  \/ \E p \in procs : PrintMetadata(p)
  \/ \E p \in procs : write_metadata(p)
  \/ \E p \in procs : write_remote(p)
  \/ \E p \in procs : write_local(p)
  \/ \E p \in procs : WriteAll(p)
  \/ \E p \in procs : FileWrite(p)
  \/ \E p \in procs : Drop(p)

Spec == Init /\ [][Next]_vars

(* ------------------------------- claims ------------------------------- *)

\* The key files (everything but the metadata file) a run has created.
KeyFilesOf(p) ==
  {hist[p].created[i] : i \in DOMAIN hist[p].created} \ {MetadataName(routine[p])}

\* The record println! emits for the metadata of p's routine.
MetadataRecord(p) == Out("json", to_vec_pretty(loc[p].metadata), 0)

\* C1: after a successful run of a per-circuit kind (inner, input, output,
\* value_check, posw), <kind>.metadata records the checksum and the size of
\* the whole content of <kind>.proving.<first 7 characters of the recorded
\* proving checksum> and of <kind>.verifying.
C1_MetadataMatchesFiles ==
  \A p \in procs :
    (pc[p] = "exit_ok" /\ routine[p] \in CircuitKinds \cup {"posw"}) =>
      /\ Exists(fs, MetadataName(routine[p]))
      /\ IsDocument(fs[MetadataName(routine[p])])
      /\ LET m == ParseJson(fs[MetadataName(routine[p])])
         IN  /\ {"proving_checksum", "proving_size", "verifying_checksum", "verifying_size"}
                  \subseteq DOMAIN m
             /\ Len(m["proving_checksum"].s) >= 7
             /\ LET proving == RemoteName(routine[p]) \o Lit(".")
                                 \o SubSeq(m["proving_checksum"].s, 1, 7)
                    verifying == VerifyingName(routine[p])
                IN  /\ Exists(fs, proving)
                    /\ Exists(fs, verifying)
                    /\ m["proving_checksum"].s = checksum(fs[proving])
                    /\ m["proving_size"].n = ByteLen(fs[proving])
                    /\ m["verifying_checksum"].s = checksum(fs[verifying])
                    /\ m["verifying_size"].n = ByteLen(fs[verifying])

\* C2: with 0 or 1 selector tokens after the program name, main returns
\* success after only a usage diagnostic: no setup routine is started, nothing
\* is written to standard output and no file is created or modified.
C2_UsageOnly ==
  \A p \in procs :
    (Len(args[p]) \in {1, 2} /\ pc[p] # "main") =>
      /\ pc[p] = "exit_ok"
      /\ stderr[p] = <<Msg("Invalid number of arguments", Len(args[p]) - 1)>>
      /\ routine[p] = "none"
      /\ stdout[p] = <<>>
      /\ hist[p].created = <<>>
      /\ fs = fs0

C2_Witness ==
  \E p \in procs : Len(args[p]) = 2 /\ pc[p] = "exit_ok" /\ fs0 = StaleFs

\* The selectors main rejects: an unknown kind, an unknown network, or
\* universal on testnet1.
BadSelectors(a) ==
  /\ Len(a) >= 3
  /\ \/ a[2] \notin Kinds
     \/ a[3] \notin Networks
     \/ (a[2] = "universal" /\ a[3] = "testnet1")

\* C3: with at least two selector tokens of which the first is no kind, or the
\* second no supported network, or the pair is (universal, testnet1), the
\* process panics before any setup routine runs: nothing is written to
\* standard output and no file is created or modified.
C3_BadSelectorsPanic ==
  \A p \in procs :
    (BadSelectors(args[p]) /\ pc[p] # "main") =>
      /\ pc[p] = "panic"
      /\ routine[p] = "none"
      /\ stdout[p] = <<>>
      /\ hist[p].created = <<>>
      /\ fs = fs0

C3_Witness ==
  \E p \in procs :
    /\ Len(args[p]) >= 3 /\ args[p][2] = "universal" /\ args[p][3] = "testnet1"
    /\ pc[p] = "panic"

SrsLine(p) == Out("srs", <<>>, ByteLen(loc[p].srs))

PrintedKeys(p) ==
  {{stdout[p][i].text[j].k : j \in 2..(Len(stdout[p][i].text) - 1)} :
     i \in {i \in DOMAIN stdout[p] : stdout[p][i].what = "json"}}

\* C6: the Metadata record of a run has a circuit_id exactly when the kind is
\* inner, input, output or value_check; posw's record has exactly the four
\* checksum and size fields, universal's exactly srs_checksum and srs_size.
C6_CircuitIdOnlyForCircuits ==
  \A p \in procs :
    \A keys \in PrintedKeys(p) \cup (IF loc[p].metadata = EmptyJson THEN {} ELSE {DOMAIN loc[p].metadata}) :
      /\ ("circuit_id" \in keys) <=> (routine[p] \in CircuitKinds)
      /\ routine[p] \in CircuitKinds =>
           keys = {"proving_checksum", "proving_size", "verifying_checksum",
                   "verifying_size", "circuit_id"}
      /\ routine[p] = "posw" =>
           keys = {"proving_checksum", "proving_size", "verifying_checksum", "verifying_size"}
      /\ routine[p] = "universal" => keys = {"srs_checksum", "srs_size"}

C6_Witness ==
  \E p \in procs :
    /\ routine[p] = "posw" /\ loc[p].network = "testnet1"
    /\ stdout[p] # <<>> /\ stdout[p][Len(stdout[p])].what = "json"
    /\ pc[p] = "exit_ok"

\* The steps C7 lists.
ListedSteps ==
  {"sizing", "setup", "serialization", "identity",
   "write_metadata", "write_remote", "write_local"}

\* C7: a failure at any listed step stops the run there and reaches main as a
\* returned error: main returns Err (no panic), a failed metadata write leaves
\* no key file written and a failed proving-key write no verifying-key file.
C7_FailFast ==
  \A p \in procs :
    hist[p].failed \in ListedSteps =>
      /\ pc[p] = "exit_err"
      /\ hist[p].failed = "write_metadata" => KeyFilesOf(p) = {}
      /\ hist[p].failed = "write_remote" =>
           KeyFilesOf(p) \subseteq
             {versioned_filename(RemoteName(routine[p]), loc[p].proving_checksum)}

\* A key file of p's run exists and the kind's metadata file does not.
KeyWithoutMetadata(p) ==
  /\ \E f \in KeyFilesOf(p) : Exists(fs, f)
  /\ ~Exists(fs, MetadataName(routine[p]))

\* EndsKeyWithoutMetadata<n>: within n more steps the run can end aborted with
\* a key file and no metadata file.  A run takes at most 3 + 2 * (2 + MaxBlocks)
\* steps from its first writer to its end.
EndsKeyWithoutMetadata0 ==
  \E p \in procs : pc[p] = "exit_err" /\ KeyWithoutMetadata(p)
EndsKeyWithoutMetadata1 ==
  EndsKeyWithoutMetadata0 \/ ENABLED (Next /\ EndsKeyWithoutMetadata0')
EndsKeyWithoutMetadata2 ==
  EndsKeyWithoutMetadata0 \/ ENABLED (Next /\ EndsKeyWithoutMetadata1')
EndsKeyWithoutMetadata3 ==
  EndsKeyWithoutMetadata0 \/ ENABLED (Next /\ EndsKeyWithoutMetadata2')
EndsKeyWithoutMetadata4 ==
  EndsKeyWithoutMetadata0 \/ ENABLED (Next /\ EndsKeyWithoutMetadata3')
EndsKeyWithoutMetadata5 ==
  EndsKeyWithoutMetadata0 \/ ENABLED (Next /\ EndsKeyWithoutMetadata4')
EndsKeyWithoutMetadata6 ==
  EndsKeyWithoutMetadata0 \/ ENABLED (Next /\ EndsKeyWithoutMetadata5')
EndsKeyWithoutMetadata7 ==
  EndsKeyWithoutMetadata0 \/ ENABLED (Next /\ EndsKeyWithoutMetadata6')
EndsKeyWithoutMetadata8 ==
  EndsKeyWithoutMetadata0 \/ ENABLED (Next /\ EndsKeyWithoutMetadata7')
EndsKeyWithoutMetadata9 ==
  EndsKeyWithoutMetadata0 \/ ENABLED (Next /\ EndsKeyWithoutMetadata8')
EndsKeyWithoutMetadata10 ==
  EndsKeyWithoutMetadata0 \/ ENABLED (Next /\ EndsKeyWithoutMetadata9')
EndsKeyWithoutMetadata11 ==
  EndsKeyWithoutMetadata0 \/ ENABLED (Next /\ EndsKeyWithoutMetadata10')
EndsKeyWithoutMetadata12 ==
  EndsKeyWithoutMetadata0 \/ ENABLED (Next /\ EndsKeyWithoutMetadata11')
EndsKeyWithoutMetadata13 ==
  EndsKeyWithoutMetadata0 \/ ENABLED (Next /\ EndsKeyWithoutMetadata12')
EndsKeyWithoutMetadata14 ==
  EndsKeyWithoutMetadata0 \/ ENABLED (Next /\ EndsKeyWithoutMetadata13')
EndsKeyWithoutMetadata15 ==
  EndsKeyWithoutMetadata0 \/ ENABLED (Next /\ EndsKeyWithoutMetadata14')
EndsKeyWithoutMetadata16 ==
  EndsKeyWithoutMetadata0 \/ ENABLED (Next /\ EndsKeyWithoutMetadata15')
EndsKeyWithoutMetadata17 ==
  EndsKeyWithoutMetadata0 \/ ENABLED (Next /\ EndsKeyWithoutMetadata16')
EndsKeyWithoutMetadata18 ==
  EndsKeyWithoutMetadata0 \/ ENABLED (Next /\ EndsKeyWithoutMetadata17')

\* EndsMetadataOnly<n>: within n more steps the run can end aborted with the
\* metadata file and no key file.
EndsMetadataOnly0 ==
  \E p \in procs :
    /\ pc[p] = "exit_err"
    /\ Exists(fs, MetadataName(routine[p]))
    /\ \A f \in DOMAIN fs : f = MetadataName(routine[p])
EndsMetadataOnly1 ==
  EndsMetadataOnly0 \/ ENABLED (Next /\ EndsMetadataOnly0')
EndsMetadataOnly2 ==
  EndsMetadataOnly0 \/ ENABLED (Next /\ EndsMetadataOnly1')
EndsMetadataOnly3 ==
  EndsMetadataOnly0 \/ ENABLED (Next /\ EndsMetadataOnly2')
EndsMetadataOnly4 ==
  EndsMetadataOnly0 \/ ENABLED (Next /\ EndsMetadataOnly3')

\* C8 as stated, its second half: from a directory without output files, a
\* run that is about to persist its results can still end aborted with a key
\* file and no metadata file.
C8_KeyWithoutMetadataPossible ==
  \A p \in procs :
    (fs0 = EmptyFs /\ pc[p] = "write_metadata") => EndsKeyWithoutMetadata18

\* C8, amended: from a directory without output files, an aborted run can
\* leave the metadata file without key files (the witness), and never a key
\* file without the metadata file.
C8_MetadataBeforeKeys ==
  \A p \in procs :
    fs0 = EmptyFs =>
      /\ ~KeyWithoutMetadata(p)
      /\ pc[p] = "write_metadata" => EndsMetadataOnly4

C8_Witness ==
  \E p \in procs :
    /\ fs0 = EmptyFs
    /\ pc[p] = "exit_err"
    /\ Exists(fs, MetadataName(routine[p]))
    /\ hist[p].created = <<MetadataName(routine[p])>>
    /\ \A f \in DOMAIN fs : f = MetadataName(routine[p])

\* C9: a writer that returned success left the file holding exactly the
\* given bytes.
C9_OkMeansWritten ==
  \A p \in procs :
    \A i \in DOMAIN hist[p].calls :
      hist[p].calls[i].ok => fs[hist[p].calls[i].path] = hist[p].calls[i].bytes

(* --------------------------- names, in isolation ---------------------- *)

RECURSIVE SeqsUpTo(_, _)
SeqsUpTo(S, n) ==
  IF n = 0 THEN {<<>>}
  ELSE LET shorter == SeqsUpTo(S, n - 1)
       IN  shorter \cup {Append(s, x) : s \in {t \in shorter : Len(t) = n - 1}, x \in S}

HexStrings == SeqsUpTo({"0", "f"}, MaxSumLen) \cup {checksum(a) : a \in Artifacts}

\* write_remote called with any checksum string of hex digits, of 0 to
\* MaxSumLen characters or of full length.
InitNames ==
  /\ procs = {"A"}
  /\ pool = [p \in procs |-> [proving |-> Artifacts, verifying |-> Artifacts]]
  /\ \E kind \in {"inner", "universal"} :
       /\ args = [p \in procs |-> <<Program, kind, "testnet2">>]
       /\ routine = [p \in procs |-> kind]
  /\ pc = [p \in procs |-> "write_remote"]
  /\ \E sum \in HexStrings, bytes \in Artifacts :
       loc = [p \in procs |-> [Loc0 EXCEPT !.network = "testnet2", !.proving_bytes = bytes,
                                            !.proving_checksum = sum]]
  /\ io = [p \in procs |-> Io0]
  /\ fs = EmptyFs
  /\ fs0 = fs
  /\ stdout = [p \in procs |-> <<>>]
  /\ stderr = [p \in procs |-> <<>>]
  /\ hist = [p \in procs |-> Hist0]

NextNames ==
  \/ \E p \in procs : write_remote(p)
  \/ \E p \in procs : WriteAll(p)
  \/ \E p \in procs : FileWrite(p)
  \/ \E p \in procs : Drop(p)

SpecNames == InitNames /\ [][NextNames]_vars

\* C4: versioned_filename(name, c) is name, ".", and the first 7 characters of
\* c when c has at least 7 characters, and name unchanged when c is shorter;
\* write_remote creates its file under exactly that name.
C4_VersionedName ==
  \A p \in procs :
    LET c == loc[p].proving_checksum
        name == RemoteName(routine[p])
        expected == IF Len(c) >= 7 THEN name \o <<".">> \o [i \in 1..7 |-> c[i]] ELSE name
    IN  /\ versioned_filename(name, c) = expected
        /\ pc[p] # "write_remote" =>
             /\ hist[p].created \in {<<>>, <<expected>>}
             /\ DOMAIN fs = {hist[p].created[i] : i \in DOMAIN hist[p].created}
             /\ \A i \in DOMAIN hist[p].calls : hist[p].calls[i].path = expected

C4_Witness ==
  \E p \in procs :
    /\ Len(loc[p].proving_checksum) = 7
    /\ hist[p].created = <<RemoteName(routine[p]) \o <<".">> \o loc[p].proving_checksum>>
    /\ Exists(fs, RemoteName(routine[p]) \o <<".">> \o loc[p].proving_checksum)

(* ----------------------- two concurrent invocations ------------------- *)

\* Two invocations of inner_setup in one working directory, A for testnet1 and
\* B for either network.  The setup returns A keys that start with block value
\* 1 and B keys that start with 2: a proving key of one block and a verifying
\* key of any length.
InitConc ==
  /\ procs = {"A", "B"}
  /\ pool = [p \in procs |->
               LET v == IF p = "A" THEN 1 ELSE 2
               IN  [proving |-> {Artifact(1, v)},
                    verifying |-> {Artifact(n, v) : n \in 1..MaxBlocks}]]
  /\ \E w \in Networks :
       args = [p \in procs |-> <<Program, "inner", IF p = "A" THEN "testnet1" ELSE w>>]
  /\ pc = [p \in procs |-> "main"]
  /\ routine = [p \in procs |-> "none"]
  /\ loc = [p \in procs |-> Loc0]
  /\ io = [p \in procs |-> Io0]
  /\ fs \in {EmptyFs, StaleFs}
  /\ fs0 = fs
  /\ stdout = [p \in procs |-> <<>>]
  /\ stderr = [p \in procs |-> <<>>]
  /\ hist = [p \in procs |-> Hist0]

NextConc ==
  \/ \E p \in procs : Main(p)
  \/ \E p \in procs : CircuitSetup(p)
  \/ \E p \in procs : CircuitId(p)
  \/ \E p \in procs : Serialize(p)
  \/ \E p \in procs : PrintMetadata(p)
  \/ \E p \in procs : write_metadata(p)
  \/ \E p \in procs : write_remote(p)
  \/ \E p \in procs : write_local(p)
  \/ \E p \in procs : WriteAll(p)
  \/ \E p \in procs : FileWrite(p)
  \/ \E p \in procs : Drop(p)

SpecConc == InitConc /\ [][NextConc]_vars

\* The files two invocations of p's kind share, and what p writes to each.
SharedFiles(p) == {MetadataName(routine[p]), VerifyingName(routine[p])}
Written(p, f) ==
  IF f = MetadataName(routine[p]) THEN to_vec_pretty(loc[p].metadata)
  ELSE loc[p].verifying_bytes

\* C10 as stated: after both invocations finished successfully (no write of
\* either failed), every shared file holds the complete content one of them
\* wrote, never a mix.
C10_LastWriterWins ==
  (\A p \in procs : pc[p] = "exit_ok" /\ hist[p].failed = "none") =>
    \A p \in procs : \A f \in SharedFiles(p) :
      \E q \in procs : fs[f] = Written(q, f)

\* C10, amended: the invocations take no lock, and after both returned success
\* every shared file holds, at each position, what one of the two wrote at
\* that position (or zeros where neither wrote), and is no longer than the
\* longer of the two contents; it can be a mix of the two.
C10_BytesOfEither ==
  (\A p \in procs : pc[p] = "exit_ok") =>
    \A p \in procs : \A f \in SharedFiles(p) :
      /\ Exists(fs, f)
      /\ \E q \in procs : Len(fs[f]) <= Len(Written(q, f))
      /\ \A i \in 1..Len(fs[f]) :
           \/ fs[f][i] = ZeroUnit
           \/ \E q \in procs : i <= Len(Written(q, f)) /\ fs[f][i] = Written(q, f)[i]

\* Both finished without a failed write, and <kind>.verifying is a mix.
C10_Witness ==
  /\ Cardinality(procs) = 2
  /\ \A p \in procs : pc[p] = "exit_ok" /\ hist[p].failed = "none"
  /\ \E p \in procs :
       /\ \A q \in procs : fs[VerifyingName(routine[p])] # Written(q, VerifyingName(routine[p]))
       /\ \E q \in procs : fs[MetadataName(routine[p])] = Written(q, MetadataName(routine[p]))

====
